---- MODULE Spec2Model ----
(***************************************************************************)
(* Model of the instantpick backend: the geospatial discovery routes, the   *)
(* location-save and the location status route of routes/location.js, the  *)
(* migration create_geo_index.js, the adminAuth middleware and the shop     *)
(* and order routes of routes/admin.js, the product writes of              *)
(* routes/products.js, and the summary, stats and paginated routes of      *)
(* routes/dashboard.js.                                                    *)
(*                                                                         *)
(* Units.  A coordinate is an integer number of hundredths of a degree     *)
(* (1297 is 12.97 degrees).  A distance computed by calculateDistance or   *)
(* by the store is an integer number of metres (the code's kilometres      *)
(* times 1000).  A radius given by a caller or stored on a shop is in      *)
(* kilometres, as in the code.  A distance reported in a response is in    *)
(* hundredths of a kilometre (the code rounds to two decimals).            *)
(*                                                                         *)
(* An optional request field is the empty sequence when the caller did not *)
(* send it and the one-element sequence << v >> when the caller sent v.    *)
(***************************************************************************)
EXTENDS Integers, Sequences, FiniteSets, TLC

\* Number of shop documents in the store.
NumShops == 2

\* routes/location.js:82  maxDistance || 10
DefaultNearbyKm == 10
\* routes/location.js:215 parseFloat(radius) || 5
DefaultRadiusKm == 5

Undefined == << >>

ShopIds == 1 .. NumShops

-----------------------------------------------------------------------------
(* JavaScript values *)

\* !x for a field of a JSON body holding a number or the numeral of one:
\* undefined and the number 0 are falsy, the string "0" is not.
FalsyJson(x) == x = Undefined \/ x = << 0 >>

\* !x for a field of a query string: every value is a string, and only the
\* missing one is falsy ("0" is a non-empty string, hence truthy).
FalsyQuery(x) == x = Undefined

\* x || d for a number x.
OrDefault(x, d) == IF x = Undefined \/ x = << 0 >> THEN d ELSE x[1]

-----------------------------------------------------------------------------
(* Geometry *)

\* The points of the model: the default location (0,0) of a shop that never
\* saved one, an origin on the equator, an origin O in Bangalore and two
\* points 0.03 and 0.11 degrees north of O; and, for the distance function
\* alone, the two poles, the two ends of the antimeridian on the equator, a
\* point of the southern and one of the western hemisphere (Sydney, New York).
Points == { << 0, 0 >>, << 0, 7759 >>, << 1297, 7759 >>, << 1300, 7759 >>,
            << 1308, 7759 >>, << 9000, 0 >>, << -9000, 0 >>, << 0, 18000 >>,
            << 0, -18000 >>, << -3387, 15121 >>, << 4071, -7401 >> }

\* R * c of calculateDistance in metres (rounded to the metre), evaluated with
\* the code's formula for every ordered pair of Points:
\*   a = sin(dLat/2)^2 + cos(toRad(lat1)) * cos(toRad(lat2)) * sin(dLon/2)^2
\*   c = 2 * atan2(sqrt(a), sqrt(1 - a)),  R = 6371
HaversineM ==
    [ p \in Points |->
      CASE p = << 0, 0 >> ->
             (<< 0, 0 >> :> 0 @@ << 0, 7759 >> :> 8627614
              @@ << 1297, 7759 >> :> 8663359 @@ << 1300, 7759 >> :> 8663523
              @@ << 1308, 7759 >> :> 8663965 @@ << 9000, 0 >> :> 10007543
              @@ << -9000, 0 >> :> 10007543 @@ << 0, 18000 >> :> 20015087
              @@ << 0, -18000 >> :> 20015087 @@ << -3387, 15121 >> :> 15199401
              @@ << 4071, -7401 >> :> 8667342)
        [] p = << 0, 7759 >> ->
             (<< 0, 0 >> :> 8627614 @@ << 0, 7759 >> :> 0
              @@ << 1297, 7759 >> :> 1442198 @@ << 1300, 7759 >> :> 1445534
              @@ << 1308, 7759 >> :> 1454430 @@ << 9000, 0 >> :> 10007543
              @@ << -9000, 0 >> :> 10007543 @@ << 0, 18000 >> :> 11387472
              @@ << 0, -18000 >> :> 11387472 @@ << -3387, 15121 >> :> 8501787
              @@ << 4071, -7401 >> :> 14657707)
        [] p = << 1297, 7759 >> ->
             (<< 0, 0 >> :> 8663359 @@ << 0, 7759 >> :> 1442198
              @@ << 1297, 7759 >> :> 0 @@ << 1300, 7759 >> :> 3336
              @@ << 1308, 7759 >> :> 12231 @@ << 9000, 0 >> :> 8565345
              @@ << -9000, 0 >> :> 11449742 @@ << 0, 18000 >> :> 11351728
              @@ << 0, -18000 >> :> 11351728 @@ << -3387, 15121 >> :> 9349561
              @@ << 4071, -7401 >> :> 13368381)
        [] p = << 1300, 7759 >> ->
             (<< 0, 0 >> :> 8663523 @@ << 0, 7759 >> :> 1445534
              @@ << 1297, 7759 >> :> 3336 @@ << 1300, 7759 >> :> 0
              @@ << 1308, 7759 >> :> 8896 @@ << 9000, 0 >> :> 8562009
              @@ << -9000, 0 >> :> 11453077 @@ << 0, 18000 >> :> 11351563
              @@ << 0, -18000 >> :> 11351563 @@ << -3387, 15121 >> :> 9351558
              @@ << 4071, -7401 >> :> 13365349)
        [] p = << 1308, 7759 >> ->
             (<< 0, 0 >> :> 8663965 @@ << 0, 7759 >> :> 1454430
              @@ << 1297, 7759 >> :> 12231 @@ << 1300, 7759 >> :> 8896
              @@ << 1308, 7759 >> :> 0 @@ << 9000, 0 >> :> 8553114
              @@ << -9000, 0 >> :> 11461973 @@ << 0, 18000 >> :> 11351122
              @@ << 0, -18000 >> :> 11351122 @@ << -3387, 15121 >> :> 9356886
              @@ << 4071, -7401 >> :> 13357264)
        [] p = << 9000, 0 >> ->
             (<< 0, 0 >> :> 10007543 @@ << 0, 7759 >> :> 10007543
              @@ << 1297, 7759 >> :> 8565345 @@ << 1300, 7759 >> :> 8562009
              @@ << 1308, 7759 >> :> 8553114 @@ << 9000, 0 >> :> 0
              @@ << -9000, 0 >> :> 20015087 @@ << 0, 18000 >> :> 10007543
              @@ << 0, -18000 >> :> 10007543 @@ << -3387, 15121 >> :> 13773716
              @@ << 4071, -7401 >> :> 5480798)
        [] p = << -9000, 0 >> ->
             (<< 0, 0 >> :> 10007543 @@ << 0, 7759 >> :> 10007543
              @@ << 1297, 7759 >> :> 11449742 @@ << 1300, 7759 >> :> 11453077
              @@ << 1308, 7759 >> :> 11461973 @@ << 9000, 0 >> :> 20015087
              @@ << -9000, 0 >> :> 0 @@ << 0, 18000 >> :> 10007543
              @@ << 0, -18000 >> :> 10007543 @@ << -3387, 15121 >> :> 6241371
              @@ << 4071, -7401 >> :> 14534289)
        [] p = << 0, 18000 >> ->
             (<< 0, 0 >> :> 20015087 @@ << 0, 7759 >> :> 11387472
              @@ << 1297, 7759 >> :> 11351728 @@ << 1300, 7759 >> :> 11351563
              @@ << 1308, 7759 >> :> 11351122 @@ << 9000, 0 >> :> 10007543
              @@ << -9000, 0 >> :> 10007543 @@ << 0, 18000 >> :> 0
              @@ << 0, -18000 >> :> 0 @@ << -3387, 15121 >> :> 4815686
              @@ << 4071, -7401 >> :> 11347744)
        [] p = << 0, -18000 >> ->
             (<< 0, 0 >> :> 20015087 @@ << 0, 7759 >> :> 11387472
              @@ << 1297, 7759 >> :> 11351728 @@ << 1300, 7759 >> :> 11351563
              @@ << 1308, 7759 >> :> 11351122 @@ << 9000, 0 >> :> 10007543
              @@ << -9000, 0 >> :> 10007543 @@ << 0, 18000 >> :> 0
              @@ << 0, -18000 >> :> 0 @@ << -3387, 15121 >> :> 4815686
              @@ << 4071, -7401 >> :> 11347744)
        [] p = << -3387, 15121 >> ->
             (<< 0, 0 >> :> 15199401 @@ << 0, 7759 >> :> 8501787
              @@ << 1297, 7759 >> :> 9349561 @@ << 1300, 7759 >> :> 9351558
              @@ << 1308, 7759 >> :> 9356886 @@ << 9000, 0 >> :> 13773716
              @@ << -9000, 0 >> :> 6241371 @@ << 0, 18000 >> :> 4815686
              @@ << 0, -18000 >> :> 4815686 @@ << -3387, 15121 >> :> 0
              @@ << 4071, -7401 >> :> 15988394)
        [] p = << 4071, -7401 >> ->
             (<< 0, 0 >> :> 8667342 @@ << 0, 7759 >> :> 14657707
              @@ << 1297, 7759 >> :> 13368381 @@ << 1300, 7759 >> :> 13365349
              @@ << 1308, 7759 >> :> 13357264 @@ << 9000, 0 >> :> 5480798
              @@ << -9000, 0 >> :> 14534289 @@ << 0, 18000 >> :> 11347744
              @@ << 0, -18000 >> :> 11347744 @@ << -3387, 15121 >> :> 15988394
              @@ << 4071, -7401 >> :> 0) ]

\* A flat approximation that adds the differences of the coordinates without
\* squaring them (111.2 m for a hundredth of a degree).
SignedFlatDistance(lat1, lon1, lat2, lon2) ==
    (1112 * ((lat2 - lat1) + (lon2 - lon1))) \div 10

calculateDistance(lat1, lon1, lat2, lon2) ==
    HaversineM[<< lat1, lon1 >>][<< lat2, lon2 >>]

\* parseFloat(d.toFixed(2)) and { $round: ['$distance', 2] }: metres to
\* hundredths of a kilometre, to the nearest.
Round2(m) == (m + 5) \div 10

\* The bounds the store accepts for a GeoJSON point.
InRange(lat, lon) ==
    lat >= -9000 /\ lat <= 9000 /\ lon >= -18000 /\ lon <= 18000

\* All orderings of the set S.
Perms(S) ==
    { f \in [1 .. Cardinality(S) -> S] : \A x \in S : \E i \in DOMAIN f : f[i] = x }

\* The orderings of S that are ascending in key (a function on S); equal keys
\* come in any order.
SortedBy(S, key) ==
    { f \in Perms(S) :
        \A i, j \in DOMAIN f : i < j => key[f[i]] <= key[f[j]] }

-----------------------------------------------------------------------------
(* State *)

VARIABLES
    shops,    \* the shops collection: shop id -> document
    admin,    \* the admin toggle request in flight, between findById and save
    res,      \* the response of the request that ended last (none while a
              \* dashboard request is in flight)
    products, \* the products collection, a set of documents
    orders,   \* the orders collection, a set of documents
    summary,  \* the dashboard request in flight (summary or stats) and the
              \* sub-queries of its Promise.all
    env,      \* process.env.ADMIN_KEY, fixed when the server starts
    reqs,     \* the write requests in flight that make more than one store
              \* call (product toggle, admin shop deletion), one per slot
    served    \* history: the number of successful toggle-availability
              \* responses sent so far, per product id

vars == << shops, admin, res, products, orders, summary, env, reqs, served >>

\* The requests in flight that make several store calls, and the history.
writeVars == << env, reqs, served >>

\* The collections and requests the discovery routes leave alone.
dashVars == << products, orders, summary, writeVars >>

\* The location fields of a shop whose owner never saved a location
\* (create_geo_index.js sets the same values).
UnsetLocation == [ lat |-> 0, lon |-> 0, deliveryRadius |-> 5, locationSet |-> FALSE ]

\* Location fields a location-save has stored (the model's catalogue).
SavedLocations ==
    { [ lat |-> 1300, lon |-> 7759, deliveryRadius |-> 5,  locationSet |-> TRUE ],
      [ lat |-> 1308, lon |-> 7759, deliveryRadius |-> 10, locationSet |-> TRUE ],
      [ lat |-> 1308, lon |-> 7759, deliveryRadius |-> 50, locationSet |-> TRUE ] }

ShopDoc(loc, active, approved) ==
    [ isActive |-> active, isApproved |-> approved,
      lat |-> loc.lat, lon |-> loc.lon,
      deliveryRadius |-> loc.deliveryRadius, locationSet |-> loc.locationSet ]

NoAdmin == [ pc |-> "idle", id |-> 0, isActive |-> FALSE ]

\* The value of ADMIN_KEY on a server that has one, and a key that differs.
AdminKey == "s3cret"
WrongKey == "guess"

\* The requests that can be in flight at once in the slots of reqs.
MaxRequests == 2
Slots == 1 .. MaxRequests

\* The ids the store gives to products.
MaxProductId == 4
ProductIds == 1 .. MaxProductId

\* A slot with no request in it.  read is the flag a toggle read with
\* findById; had is history: the ids of the products the shop had when a
\* deletion request arrived.
NoRequest == [ pc |-> "idle", route |-> "", id |-> 0, read |-> FALSE, had |-> {} ]

\* A server with ADMIN_KEY set, no write request in flight, no toggle served.
NoWrites ==
    /\ env = << AdminKey >>
    /\ reqs = [ slot \in Slots |-> NoRequest ]
    /\ served = [ p \in ProductIds |-> 0 ]

NoResponse ==
    [ op |-> "none", lat |-> Undefined, lon |-> Undefined, radius |-> Undefined,
      status |-> 0, success |-> FALSE, message |-> "", error |-> "",
      data |-> << >>, searchRadius |-> Undefined, store |-> "none",
      summary |-> << >>, shopId |-> Undefined ]

\* What a store call can end in: a result, or one of the store's errors.
StoreErrors == { "IndexUnavailable", "QueryTimeout" }
StoreOutcomes == { "ok" } \cup StoreErrors

-----------------------------------------------------------------------------
(* The store's geospatial queries *)

\* The distance the store computes from the query point to a shop, in metres:
\* the great-circle distance, taken to agree with calculateDistance.
StoreDistanceM(sh, lat, lon, s) ==
    calculateDistance(lat, lon, sh[s].lat, sh[s].lon)

\* A filter that forgets isApproved.
ActiveOnly(sh, s) == sh[s].isActive

\* The filter of every discovery query: isActive: true, isApproved: true.
ActiveApproved(sh, s) == sh[s].isActive /\ sh[s].isApproved

\* Shop.find({ location: { $near: { $geometry, $maxDistance } }, isActive: true,
\* isApproved: true }): the matching shops, nearest first.
FindNear(sh, lat, lon, maxM) ==
    SortedBy({ s \in ShopIds : /\ ActiveApproved(sh, s)
                               /\ StoreDistanceM(sh, lat, lon, s) <= maxM },
             [ s \in ShopIds |-> StoreDistanceM(sh, lat, lon, s) ])

\* An admission rule that compares with one global radius instead of the shop's.
DeliverableAdmitsGlobalRadius(sh, lat, lon, s) ==
    StoreDistanceM(sh, lat, lon, s) <= DefaultNearbyKm * 1000

\* $addFields withinDeliveryRadius: { $lte: ['$distance', '$deliveryRadius'] }
\* with $distance in kilometres (distanceMultiplier 0.001).
DeliverableAdmits(sh, lat, lon, s) ==
    StoreDistanceM(sh, lat, lon, s) <= sh[s].deliveryRadius * 1000

\* The aggregation of /shops/deliverable: $geoNear without maxDistance, the
\* $match on withinDeliveryRadius, $project with the rounded distance, $sort.
AggregateDeliverable(sh, lat, lon) ==
    SortedBy({ s \in ShopIds : /\ ActiveApproved(sh, s)
                               /\ DeliverableAdmits(sh, lat, lon, s) },
             [ s \in ShopIds |-> Round2(StoreDistanceM(sh, lat, lon, s)) ])

\* A radius aggregation that also applies the delivery-radius $match.
AggregateRadiusWithDeliveryMatch(sh, lat, lon, maxM) ==
    SortedBy({ s \in ShopIds : /\ ActiveApproved(sh, s)
                               /\ StoreDistanceM(sh, lat, lon, s) <= maxM
                               /\ DeliverableAdmits(sh, lat, lon, s) },
             [ s \in ShopIds |-> Round2(StoreDistanceM(sh, lat, lon, s)) ])

\* The aggregation of /shops/radius: $geoNear with maxDistance, $project with
\* the rounded distance, $sort.
AggregateRadius(sh, lat, lon, maxM) ==
    SortedBy({ s \in ShopIds : /\ ActiveApproved(sh, s)
                               /\ StoreDistanceM(sh, lat, lon, s) <= maxM },
             [ s \in ShopIds |-> Round2(StoreDistanceM(sh, lat, lon, s)) ])

\* A store call's error, if it ends in one: the store refuses a query point
\* outside the GeoJSON bounds, and any call can fail on the store's side.
QueryError(lat, lon, outcome) ==
    IF ~InRange(lat, lon) THEN "OutOfBounds"
    ELSE IF outcome # "ok" THEN outcome
    ELSE ""

-----------------------------------------------------------------------------
(* Responses *)

\* A response, with the request it answers (op, lat, lon, radius) and what became
\* of the request's store call (store: "none" when no call was issued, "ok"
\* when it returned, "failed" when it threw).
Response(op, lat, lon, radius, status, success, message, error, data, sr, q) ==
    [ op |-> op, lat |-> lat, lon |-> lon, radius |-> radius,
      status |-> status, success |-> success, message |-> message,
      error |-> error, data |-> data, searchRadius |-> sr, store |-> q,
      summary |-> << >>, shopId |-> Undefined ]

\* res.status(400): latitude or longitude is missing; no store call was made.
MissingCoordinates(op, lat, lon, radius) ==
    Response(op, lat, lon, radius, 400, FALSE,
             "Latitude and longitude are required", "", << >>, Undefined, "none")

\* A catch block that swallows the error and answers with an empty list.
ServerErrorSwallowed(op, lat, lon, radius, error) ==
    Response(op, lat, lon, radius, 200, TRUE, "", "", << >>, Undefined, "failed")

\* The catch block: res.status(500) with the message of the error caught.
ServerError(op, lat, lon, radius, error) ==
    Response(op, lat, lon, radius, 500, FALSE, "Server error", error,
             << >>, Undefined, "failed")

\* res.json({ success: true, count, data }) (and searchRadius for /shops/radius).
Success(op, lat, lon, radius, data, sr) ==
    Response(op, lat, lon, radius, 200, TRUE, "", "", data, sr, "ok")

-----------------------------------------------------------------------------
(* POST /shops/nearby *)

\* A flag that compares with the default search radius instead of the shop's.
WithinSearchRadius(distM, deliveryRadius) == distM <= DefaultNearbyKm * 1000

\* withinDeliveryRadius: distance <= shop.deliveryRadius, on the distance
\* before rounding.
WithinDeliveryRadius(distM, deliveryRadius) == distM <= deliveryRadius * 1000

\* shops.map(shop => ({ ...shop, distance, withinDeliveryRadius })).
NearbyEntry(sh, lat, lon, s) ==
    LET distance == calculateDistance(lat, lon, sh[s].lat, sh[s].lon)
    IN  [ id |-> s,
          distance |-> Round2(distance),
          deliveryRadius |-> sh[s].deliveryRadius,
          withinDeliveryRadius |-> WithinDeliveryRadius(distance, sh[s].deliveryRadius) ]

\* const maxDistanceKm = maxDistance || 10
NearbyMaxDistanceKm(maxDistance) == OrDefault(maxDistance, DefaultNearbyKm)

NearbyShops(latitude, longitude, maxDistance) ==
    /\ IF FalsyJson(latitude) \/ FalsyJson(longitude)
       THEN res' = MissingCoordinates("nearby", latitude, longitude, maxDistance)
       ELSE LET lat == latitude[1]
                lon == longitude[1]
                maxDistanceKm == NearbyMaxDistanceKm(maxDistance)
            IN  \E outcome \in StoreOutcomes :
                LET err == QueryError(lat, lon, outcome)
                IN
                IF err # ""
                THEN res' = ServerError("nearby", latitude, longitude, maxDistance, err)
                ELSE \E found \in FindNear(shops, lat, lon, maxDistanceKm * 1000) :
                       res' = Success("nearby", latitude, longitude, maxDistance,
                                      [ i \in DOMAIN found |->
                                          NearbyEntry(shops, lat, lon, found[i]) ],
                                      Undefined)
    /\ UNCHANGED << shops, admin, dashVars >>

-----------------------------------------------------------------------------
(* POST /shops/deliverable and GET /shops/radius *)

\* A document of the aggregation's output: $project keeps deliveryRadius and
\* replaces distance by its rounding.
GeoNearEntry(sh, lat, lon, s) ==
    [ id |-> s,
      distance |-> Round2(StoreDistanceM(sh, lat, lon, s)),
      deliveryRadius |-> sh[s].deliveryRadius ]

DeliverableShops(latitude, longitude) ==
    /\ IF FalsyJson(latitude) \/ FalsyJson(longitude)
       THEN res' = MissingCoordinates("deliverable", latitude, longitude, Undefined)
       ELSE LET lat == latitude[1]
                lon == longitude[1]
            IN  \E outcome \in StoreOutcomes :
                LET err == QueryError(lat, lon, outcome)
                IN
                IF err # ""
                THEN res' = ServerError("deliverable", latitude, longitude, Undefined, err)
                ELSE \E found \in AggregateDeliverable(shops, lat, lon) :
                       res' = Success("deliverable", latitude, longitude, Undefined,
                                      [ i \in DOMAIN found |->
                                          GeoNearEntry(shops, lat, lon, found[i]) ],
                                      Undefined)
    /\ UNCHANGED << shops, admin, dashVars >>

\* const searchRadius = parseFloat(radius) || 5
RadiusSearchRadius(radius) == OrDefault(radius, DefaultRadiusKm)

RadiusShops(latitude, longitude, radius) ==
    /\ IF FalsyQuery(latitude) \/ FalsyQuery(longitude)
       THEN res' = MissingCoordinates("radius", latitude, longitude, radius)
       ELSE LET lat == latitude[1]
                lon == longitude[1]
                searchRadius == RadiusSearchRadius(radius)
            IN  \E outcome \in StoreOutcomes :
                LET err == QueryError(lat, lon, outcome)
                IN
                IF err # ""
                THEN res' = ServerError("radius", latitude, longitude, radius, err)
                ELSE \E found \in AggregateRadius(shops, lat, lon, searchRadius * 1000) :
                       res' = Success("radius", latitude, longitude, radius,
                                      [ i \in DOMAIN found |->
                                          GeoNearEntry(shops, lat, lon, found[i]) ],
                                      << searchRadius >>)
    /\ UNCHANGED << shops, admin, dashVars >>

-----------------------------------------------------------------------------
(* PATCH /api/admin/shops/:id/toggle-status, the route after adminAuth *)

AdminResponse(status, success, message) ==
    Response("toggle", Undefined, Undefined, Undefined, status, success,
             message, "", << >>, Undefined, "ok")

\* const shop = await Shop.findById(id); a missing shop ends in 404.
ToggleShopFind(id) ==
    /\ admin.pc = "idle"
    /\ IF id \in DOMAIN shops
       THEN /\ admin' = [ pc |-> "found", id |-> id, isActive |-> shops[id].isActive ]
            /\ UNCHANGED res
       ELSE /\ res' = AdminResponse(404, FALSE, "Shop not found")
            /\ UNCHANGED admin
    /\ UNCHANGED << shops, dashVars >>

\* shop.isActive = !shop.isActive; await shop.save(); res.json(...).
\* save() writes the modified path isActive only.
\* save() throws when the shop was deleted since findById.
ToggleShopSave ==
    /\ admin.pc = "found"
    /\ IF admin.id \in DOMAIN shops
       THEN /\ shops' = [ shops EXCEPT ![admin.id].isActive = ~admin.isActive ]
            /\ res' = AdminResponse(200, TRUE, "")
       ELSE /\ res' = AdminResponse(500, FALSE, "No document found")
            /\ UNCHANGED shops
    /\ admin' = NoAdmin
    /\ UNCHANGED dashVars

-----------------------------------------------------------------------------
(* GET /api/dashboard/summary/:ownerId and GET /api/dashboard/stats/:shopId *)

\* The day "today" of the model; an order's createdDay is a day number, and
\* the clock of the model ticks in days.
Today == 1

\* const { days = 7 } = req.query
DefaultStatsDays == 7

\* The owner of a shop (the model's owner ids are the shop ids).
OwnerOf(s) == s

\* The products and orders in the store at the start.  A shopId stored in a
\* document is an ObjectId (the routes populate it); the model writes the
\* ObjectId of shop s as the number s.
\* createdAt is the instant a document was created, in ticks of the
\* model; an order's createdDay is the day of that instant.
InitProducts ==
    { [ id |-> 1, shopId |-> 1, isAvailable |-> TRUE, category |-> "grocery",
        createdAt |-> 1 ],
      [ id |-> 2, shopId |-> 1, isAvailable |-> FALSE, category |-> "dairy",
        createdAt |-> 2 ],
      [ id |-> 3, shopId |-> 2, isAvailable |-> TRUE, category |-> "grocery",
        createdAt |-> 3 ] }

InitOrders ==
    { [ id |-> 1, shopId |-> 1, status |-> "Completed", totalAmount |-> 30,
        createdDay |-> 1, createdAt |-> 2 ],
      [ id |-> 2, shopId |-> 1, status |-> "Completed", totalAmount |-> 20,
        createdDay |-> 0, createdAt |-> 1 ],
      [ id |-> 3, shopId |-> 1, status |-> "Pending", totalAmount |-> 10,
        createdDay |-> 1, createdAt |-> 3 ],
      [ id |-> 4, shopId |-> 2, status |-> "Accepted", totalAmount |-> 40,
        createdDay |-> 1, createdAt |-> 4 ] }

\* The sub-queries of the summary's Promise.all, in the order of the array.
Facets ==
    << "totalProducts", "availableProducts", "totalOrders", "pendingOrders",
       "acceptedOrders", "completedOrders", "todayRevenue", "todayOrders" >>

FacetNames == { Facets[i] : i \in DOMAIN Facets }

\* The sub-queries of the stats' Promise.all: const [dailyStats, categoryStats].
StatsFacets == << "dailyStats", "categoryStats" >>

StatsFacetNames == { StatsFacets[i] : i \in DOMAIN StatsFacets }

AllFacetNames == FacetNames \cup StatsFacetNames

\* The sub-queries a route's Promise.all awaits.
RouteFacets(route) == IF route = "stats" THEN StatsFacetNames ELSE FacetNames

RECURSIVE SumAmounts(_)
\* $group: { _id: null, total: { $sum: '$totalAmount' } }
SumAmounts(S) ==
    IF S = {} THEN 0
    ELSE LET o == CHOOSE x \in S : TRUE
         IN  o.totalAmount + SumAmounts(S \ { o })

\* A filter on createdAt that lets every order through.
CreatedEver(o, day) == TRUE

\* createdAt: { $gte: today }, today being the start of the day.
CreatedSince(o, day) == o.createdDay >= day

\* What a sub-query of the summary returns when the store answers it now;
\* shopId is shop._id, an ObjectId.
FacetQuery(f, shopId) ==
    CASE f = "totalProducts" ->
           Cardinality({ p \in products : p.shopId = shopId })
      [] f = "availableProducts" ->
           Cardinality({ p \in products : p.shopId = shopId /\ p.isAvailable })
      [] f = "totalOrders" ->
           Cardinality({ o \in orders : o.shopId = shopId })
      [] f = "pendingOrders" ->
           Cardinality({ o \in orders : o.shopId = shopId /\ o.status = "Pending" })
      [] f = "acceptedOrders" ->
           Cardinality({ o \in orders : o.shopId = shopId /\ o.status = "Accepted" })
      [] f = "completedOrders" ->
           Cardinality({ o \in orders : o.shopId = shopId /\ o.status = "Completed" })
      [] f = "todayRevenue" ->
           SumAmounts({ o \in orders : /\ o.shopId = shopId
                                       /\ o.status = "Completed"
                                       /\ CreatedSince(o, Today) })
      [] f = "todayOrders" ->
           Cardinality({ o \in orders : o.shopId = shopId /\ CreatedSince(o, Today) })

\* req.params.shopId: a string, the hexadecimal text of the id n.
ParamString(n) == [ type |-> "string", id |-> n ]

\* $match: { shopId } in an aggregation pipeline.  The pipeline is sent to the
\* store as written (only find, count and update filters are cast to the
\* schema's types), and a string equals no ObjectId.
AggregateMatchesId(stored, v) == v.type = "ObjectId" /\ v.id = stored

\* parseInt(days), days being 7 when the caller gave none.
StatsDays(days) == IF days = Undefined THEN DefaultStatsDays ELSE days[1]

\* Order.aggregate([$match, $group by day, $sort: { _id: 1 }]): one bucket for
\* each day of a matching order, in ascending order of day.
DailyStats(v, since) ==
    LET matched == { o \in orders : /\ AggregateMatchesId(o.shopId, v)
                                    /\ o.status = "Completed"
                                    /\ CreatedSince(o, since) }
        days == { o.createdDay : o \in matched }
        sorted == CHOOSE f \in SortedBy(days, [ d \in days |-> d ]) : TRUE
    IN  [ i \in DOMAIN sorted |->
            LET ofDay == { o \in matched : o.createdDay = sorted[i] }
            IN  [ day |-> sorted[i], orders |-> Cardinality(ofDay),
                  revenue |-> SumAmounts(ofDay) ] ]

\* Product.aggregate([$match, $group by category]): one bucket for each
\* category of a matching product (a set: $group promises no order).
CategoryStats(v) ==
    LET matched == { p \in products : AggregateMatchesId(p.shopId, v) }
    IN  { [ category |-> c,
            count |-> Cardinality({ p \in matched : p.category = c }) ] :
          c \in { p.category : p \in matched } }

\* What a sub-query of the stats returns when the store answers it now.
StatsQuery(f, v, since) ==
    IF f = "dailyStats" THEN DailyStats(v, since) ELSE CategoryStats(v)

\* An error a store call throws: its message, and (not part of the error
\* object) the sub-query that threw it.
StoreError(facet, message) == [ facet |-> facet, message |-> message ]
NoError == StoreError("", "")

Unissued == [ state |-> "unissued", value |-> 0 ]
Pending == [ state |-> "pending", value |-> 0 ]
Fulfilled(v) == [ state |-> "ok", value |-> v ]
Rejected == [ state |-> "failed", value |-> 0 ]

NoSummary ==
    [ pc |-> "idle", route |-> "", ownerId |-> 0, shopId |-> 0, days |-> 0,
      facet |-> [ f \in AllFacetNames |-> Unissued ], rejection |-> NoError ]

\* Sub-queries chained one after the other (await a; await b; ...): only the
\* first is issued before the handler waits.
IssueFirst(names) ==
    [ f \in AllFacetNames |->
        IF f = (CHOOSE g \in names : TRUE) THEN Pending ELSE Unissued ]

\* The array literal given to Promise.all: every element is a query, created
\* and sent before the await.
IssueAll(names) ==
    [ f \in AllFacetNames |-> IF f \in names THEN Pending ELSE Unissued ]

\* Promise.allSettled in place of Promise.all: settles when no sub-query is
\* pending, and never rejects.
PromiseAllSettled(facet) ==
    IF \A f \in DOMAIN facet : facet[f].state \in { "ok", "failed" }
    THEN "fulfilled" ELSE "pending"

\* Promise.all over the sub-queries: rejected as soon as one is rejected,
\* fulfilled when all are fulfilled.
PromiseAll(facet) ==
    IF \E f \in DOMAIN facet : facet[f].state = "failed" THEN "rejected"
    ELSE IF \A f \in DOMAIN facet : facet[f].state = "ok" THEN "fulfilled"
    ELSE "pending"

\* The promises the request in flight gave to its Promise.all.
Awaited == [ f \in RouteFacets(summary.route) |-> summary.facet[f] ]

SummaryResponse(status, success, message, error, data, store) ==
    [ op |-> "summary", lat |-> Undefined, lon |-> Undefined, radius |-> Undefined,
      status |-> status, success |-> success, message |-> message,
      error |-> error, data |-> << >>, searchRadius |-> Undefined,
      store |-> store, summary |-> data, shopId |-> Undefined ]

\* The catch block of the summary route.
SummaryError(error) ==
    SummaryResponse(500, FALSE, "Failed to load dashboard summary", error.message,
                    << >>, "failed")

\* res.json({ success: true, data: { shop, products, orders, revenue, today } }).
SummaryData(shopId, isActive, facet) ==
    [ shopId |-> shopId,
      isActive |-> isActive,
      productsTotal |-> facet["totalProducts"].value,
      productsAvailable |-> facet["availableProducts"].value,
      productsUnavailable |-> facet["totalProducts"].value
                                - facet["availableProducts"].value,
      ordersTotal |-> facet["totalOrders"].value,
      ordersPending |-> facet["pendingOrders"].value,
      ordersAccepted |-> facet["acceptedOrders"].value,
      ordersCompleted |-> facet["completedOrders"].value,
      revenueToday |-> facet["todayRevenue"].value,
      todayOrders |-> facet["todayOrders"].value,
      todayRevenue |-> facet["todayRevenue"].value ]

\* The response of the stats route: res.json({ success: true, data: { daily,
\* categories } }), or its catch block.
StatsResponse(status, success, message, error, data, store) ==
    [ SummaryResponse(status, success, message, error, data, store)
        EXCEPT !.op = "stats" ]

StatsError(error) ==
    StatsResponse(500, FALSE, "Failed to load stats", error.message, << >>, "failed")

StatsData(facet) ==
    [ daily |-> facet["dailyStats"].value,
      categories |-> facet["categoryStats"].value ]

\* The request arrives and issues Shop.findOne({ ownerId }).
SummaryRequest(ownerId) ==
    /\ summary.pc \in { "idle", "done" }
    /\ summary' = [ NoSummary EXCEPT !.pc = "findShop", !.route = "summary",
                                     !.ownerId = ownerId ]
    /\ res' = NoResponse
    /\ UNCHANGED << shops, admin, products, orders, writeVars >>

\* Shop.findOne returns or throws.  No shop: 404.  A shop: the eight
\* sub-queries of the Promise.all are issued, and the handler awaits them.
SummaryShopFound(outcome) ==
    /\ summary.pc = "findShop"
    /\ LET found == { s \in ShopIds : OwnerOf(s) = summary.ownerId }
       IN  IF outcome # "ok"
           THEN /\ res' = SummaryError(StoreError("", outcome))
                /\ summary' = [ summary EXCEPT !.pc = "done" ]
           ELSE IF found = {}
           THEN /\ res' = SummaryResponse(404, FALSE, "Shop not found for this owner",
                                          "", << >>, "ok")
                /\ summary' = [ summary EXCEPT !.pc = "done" ]
           ELSE /\ summary' = [ summary EXCEPT !.pc = "fanout",
                                               !.shopId = CHOOSE s \in found : TRUE,
                                               !.facet = IssueAll(FacetNames) ]
                /\ UNCHANGED res
    /\ UNCHANGED << shops, admin, products, orders, writeVars >>

\* The stats request arrives: the handler computes the start of the window
\* and issues the two aggregations of its Promise.all, without looking the
\* shop up.
StatsRequest(shopId, days) ==
    /\ summary.pc \in { "idle", "done" }
    /\ summary' = [ NoSummary EXCEPT !.pc = "fanout", !.route = "stats",
                                     !.shopId = shopId,
                                     !.days = StatsDays(days),
                                     !.facet = IssueAll(StatsFacetNames) ]
    /\ res' = NoResponse
    /\ UNCHANGED << shops, admin, products, orders, writeVars >>

\* What the store answers to sub-query f of the request in flight.
SubQueryResult(f) ==
    IF f \in StatsFacetNames
    THEN StatsQuery(f, ParamString(summary.shopId), Today - summary.days)
    ELSE FacetQuery(f, summary.shopId)

\* The store answers one sub-query.
SubQueryReturns(f) ==
    /\ summary.pc = "fanout"
    /\ summary.facet[f].state = "pending"
    /\ summary' = [ summary EXCEPT !.facet[f] = Fulfilled(SubQueryResult(f)) ]
    /\ UNCHANGED << shops, admin, res, products, orders, writeVars >>

\* One sub-query throws.  The Promise.all is rejected with the first error.
SubQueryFails(f, message) ==
    /\ summary.pc = "fanout"
    /\ summary.facet[f].state = "pending"
    /\ summary' = [ summary EXCEPT
                      !.facet[f] = Rejected,
                      !.rejection = IF summary.rejection = NoError
                                    THEN StoreError(f, message)
                                    ELSE summary.rejection ]
    /\ UNCHANGED << shops, admin, res, products, orders, writeVars >>

\* The await of the Promise.all ends: the handler answers with the summary,
\* or its catch block answers with the error.  Sub-queries still pending go
\* on in the store; their results are dropped.
SummaryJoin ==
    /\ summary.pc = "fanout"
    /\ summary.route = "summary"
    /\ PromiseAll(Awaited) # "pending"
    /\ res' = IF PromiseAll(Awaited) = "rejected"
              THEN SummaryError(summary.rejection)
              ELSE SummaryResponse(200, TRUE, "", "",
                                   SummaryData(summary.shopId,
                                               shops[summary.shopId].isActive,
                                               summary.facet),
                                   "ok")
    /\ summary' = [ summary EXCEPT !.pc = "done" ]
    /\ UNCHANGED << shops, admin, products, orders, writeVars >>

\* The same for the stats route.
StatsJoin ==
    /\ summary.pc = "fanout"
    /\ summary.route = "stats"
    /\ PromiseAll(Awaited) # "pending"
    /\ res' = IF PromiseAll(Awaited) = "rejected"
              THEN StatsError(summary.rejection)
              ELSE StatsResponse(200, TRUE, "", "", StatsData(summary.facet), "ok")
    /\ summary' = [ summary EXCEPT !.pc = "done" ]
    /\ UNCHANGED << shops, admin, products, orders, writeVars >>

-----------------------------------------------------------------------------
(* POST /shop/location, GET /shop/:shopId/status and create_geo_index.js *)

\* The largest deliveryRadius a location-save accepts, in kilometres.
MaxDeliveryRadiusKm == 50

\* deliveryRadius: 5 of the migration's $set.
MigrationRadiusKm == 5

\* The id, well formed, of no shop of the store.
NoSuchShop == 0

\* A JSON body can carry a number as a string: the string whose text is the
\* numeral of v.  (A string of digits is not empty, hence truthy.)
JsonString(v) == << v, "string" >>

\* The number that <, > and the schema's cast to Number read in a field that
\* holds a number or the numeral of one.
ToNumber(x) == x[1]

\* The location fields of a shop document.
LocationOf(doc) ==
    [ lat |-> doc.lat, lon |-> doc.lon, deliveryRadius |-> doc.deliveryRadius,
      locationSet |-> doc.locationSet ]

\* An update that writes the coordinates and leaves the other two fields for
\* a second update.
SetCoordinatesOnly(doc, lat, lon, deliveryRadius) ==
    [ doc EXCEPT !.lat = lat, !.lon = lon ]

\* The update of findByIdAndUpdate: { location, deliveryRadius, locationSet:
\* true }, one write of one document.
SetLocation(doc, lat, lon, deliveryRadius) ==
    [ doc EXCEPT !.lat = lat, !.lon = lon, !.deliveryRadius = deliveryRadius,
                 !.locationSet = TRUE ]

\* A response of the save route, with the request it answers.
SaveResponse(shopId, latitude, longitude, deliveryRadius, status, message, q) ==
    [ Response("saveLocation", latitude, longitude, deliveryRadius, status, FALSE,
               message, "", << >>, Undefined, q)
        EXCEPT !.shopId = shopId ]

\* data: { shopId: shop._id, location: shop.location, deliveryRadius }.
SavedData(s, doc) ==
    << [ id |-> s, lat |-> doc.lat, lon |-> doc.lon,
         deliveryRadius |-> doc.deliveryRadius ] >>

LocationSave(shopId, latitude, longitude, deliveryRadius) ==
    /\ IF \/ shopId = Undefined \/ FalsyJson(latitude)
          \/ FalsyJson(longitude) \/ FalsyJson(deliveryRadius)
       THEN /\ res' = SaveResponse(shopId, latitude, longitude, deliveryRadius,
                                   400, "Missing required fields", "none")
            /\ UNCHANGED shops
       ELSE IF ~InRange(ToNumber(latitude), ToNumber(longitude))
       THEN /\ res' = SaveResponse(shopId, latitude, longitude, deliveryRadius,
                                   400, "Invalid coordinates", "none")
            /\ UNCHANGED shops
       ELSE IF \/ ToNumber(deliveryRadius) < 0
               \/ ToNumber(deliveryRadius) > MaxDeliveryRadiusKm
       THEN /\ res' = SaveResponse(shopId, latitude, longitude, deliveryRadius, 400,
                                   "Delivery radius must be between 0 and 50 km",
                                   "none")
            /\ UNCHANGED shops
       ELSE \E outcome \in StoreOutcomes :
              IF outcome # "ok"
              THEN /\ res' = [ SaveResponse(shopId, latitude, longitude,
                                            deliveryRadius, 500, "Server error",
                                            "failed")
                                 EXCEPT !.error = outcome ]
                   /\ UNCHANGED shops
              ELSE IF shopId[1] \notin ShopIds
              THEN /\ res' = SaveResponse(shopId, latitude, longitude,
                                          deliveryRadius, 404, "Shop not found", "ok")
                   /\ UNCHANGED shops
              ELSE LET s == shopId[1]
                       doc == SetLocation(shops[s], ToNumber(latitude),
                                          ToNumber(longitude),
                                          ToNumber(deliveryRadius))
                   IN  /\ shops' = [ shops EXCEPT ![s] = doc ]
                       /\ res' = [ SaveResponse(shopId, latitude, longitude,
                                                deliveryRadius, 200,
                                                "Location saved successfully", "ok")
                                     EXCEPT !.success = TRUE,
                                            !.data = SavedData(s, doc) ]
    /\ UNCHANGED << admin, dashVars >>

\* data: { locationSet, hasCoordinates, deliveryRadius } of the status route.
StatusData(s, doc) ==
    << [ id |-> s,
         locationSet |-> doc.locationSet,
         hasCoordinates |-> (doc.lon # 0 \/ doc.lat # 0),
         deliveryRadius |-> doc.deliveryRadius ] >>

\* Shop.findById(shopId).select('locationSet location deliveryRadius'): one
\* read of one document.
LocationStatus(shopId) ==
    /\ \E outcome \in StoreOutcomes :
         res' = [ Response("status", Undefined, Undefined, Undefined,
                           IF outcome # "ok" THEN 500
                           ELSE IF shopId \notin ShopIds THEN 404 ELSE 200,
                           outcome = "ok" /\ shopId \in ShopIds,
                           IF outcome # "ok" THEN "Server error"
                           ELSE IF shopId \notin ShopIds THEN "Shop not found" ELSE "",
                           IF outcome # "ok" THEN outcome ELSE "",
                           IF outcome = "ok" /\ shopId \in ShopIds
                           THEN StatusData(shopId, shops[shopId]) ELSE << >>,
                           Undefined,
                           IF outcome # "ok" THEN "failed" ELSE "ok")
                    EXCEPT !.shopId = << shopId >> ]
    /\ UNCHANGED << shops, admin, dashVars >>

\* The filter of the migration's updateMany: { location: { $exists: false } }
\* or { 'location.coordinates': [0, 0] }.  Every document of the model has a
\* location, so the second alone decides.
MigrationMatches(doc) == doc.lon = 0 /\ doc.lat = 0

\* create_geo_index.js: updateMany(filter, { $set: { location: { type: 'Point',
\* coordinates: [0, 0] }, deliveryRadius: 5 } }), and the script ends.
CreateGeoIndex ==
    /\ shops' = [ s \in ShopIds |->
                    IF MigrationMatches(shops[s])
                    THEN [ shops[s] EXCEPT !.lat = 0, !.lon = 0,
                                           !.deliveryRadius = MigrationRadiusKm ]
                    ELSE shops[s] ]
    /\ res' = [ NoResponse EXCEPT !.op = "createGeoIndex", !.success = TRUE,
                                  !.store = "ok" ]
    /\ UNCHANGED << admin, dashVars >>

-----------------------------------------------------------------------------
(* The adminAuth middleware and the admin routes of routes/admin.js *)

\* !x for a header or an environment variable: absent, or the empty string.
FalsyString(x) == x = Undefined \/ x = << "" >>

\* A middleware that asks for a key and does not compare it.
adminAuthAnyKey(adminKey) ==
    IF FalsyString(env)
    THEN [ next |-> FALSE, status |-> 500,
           message |-> "Admin key not configured on server" ]
    ELSE IF FalsyString(adminKey)
    THEN [ next |-> FALSE, status |-> 403, message |-> "Admin key required" ]
    ELSE [ next |-> TRUE, status |-> 0, message |-> "" ]

\* adminAuth: 500 when ADMIN_KEY is not configured, 403 when the header is
\* missing, 403 when it differs from ADMIN_KEY, next() otherwise.
adminAuth(adminKey) ==
    IF FalsyString(env)
    THEN [ next |-> FALSE, status |-> 500,
           message |-> "Admin key not configured on server" ]
    ELSE IF FalsyString(adminKey)
    THEN [ next |-> FALSE, status |-> 403, message |-> "Admin key required" ]
    ELSE IF adminKey # env
    THEN [ next |-> FALSE, status |-> 403, message |-> "Invalid admin key" ]
    ELSE [ next |-> TRUE, status |-> 0, message |-> "" ]

\* The response adminAuth sends instead of calling next(), with the key of
\* the request it answers.
AdminDenied(adminKey) ==
    [ NoResponse EXCEPT !.op = "adminAuth",
                        !.status = adminAuth(adminKey).status,
                        !.message = adminAuth(adminKey).message,
                        !.data = << [ adminKey |-> adminKey ] >> ]

\* PATCH /api/admin/shops/:id/toggle-status: adminAuth, then the handler.
AdminToggleShop(adminKey, id) ==
    IF adminAuth(adminKey).next
    THEN ToggleShopFind(id)
    ELSE /\ res' = AdminDenied(adminKey)
         /\ UNCHANGED << shops, admin, dashVars >>

\* A response of DELETE /api/admin/shops/:id, with the id of the request and
\* the products the shop had when the request arrived.
DeleteShopResponse(id, had, status, success, message) ==
    [ NoResponse EXCEPT !.op = "deleteShop", !.status = status,
                        !.success = success, !.message = message,
                        !.shopId = << id >>, !.data = << [ had |-> had ] >> ]

\* DELETE /api/admin/shops/:id: adminAuth, then the handler issues
\* Product.deleteMany({ shopId: req.params.id }).
DeleteShopRequest(slot, adminKey, id) ==
    /\ reqs[slot].pc = "idle"
    /\ IF adminAuth(adminKey).next
       THEN /\ reqs' = [ reqs EXCEPT ![slot] =
                           [ pc |-> "deleteMany", route |-> "deleteShop", id |-> id,
                             read |-> FALSE,
                             had |-> { p.id : p \in { q \in products : q.shopId = id } } ] ]
            /\ UNCHANGED res
       ELSE /\ res' = AdminDenied(adminKey)
            /\ UNCHANGED reqs
    /\ UNCHANGED << shops, admin, products, orders, summary, env, served >>

\* await Product.deleteMany(...): the store removes the products of the shop
\* and the handler issues Shop.findByIdAndDelete, or the store fails and the
\* catch block answers 500 with the message of the error.
DeleteShopProducts(slot, outcome) ==
    /\ reqs[slot].pc = "deleteMany"
    /\ IF outcome = "ok"
       THEN /\ products' = { p \in products : p.shopId # reqs[slot].id }
            /\ reqs' = [ reqs EXCEPT ![slot].pc = "findByIdAndDelete" ]
            /\ UNCHANGED res
       ELSE /\ res' = DeleteShopResponse(reqs[slot].id, reqs[slot].had,
                                         500, FALSE, outcome)
            /\ reqs' = [ reqs EXCEPT ![slot] = NoRequest ]
            /\ UNCHANGED products
    /\ UNCHANGED << shops, admin, orders, summary, env, served >>

\* await Shop.findByIdAndDelete(req.params.id); res.json({ success: true,
\* message: 'Shop and products deleted' }), whether a shop was found or not;
\* or the store fails and the catch block answers 500.
DeleteShopDoc(slot, outcome) ==
    /\ reqs[slot].pc = "findByIdAndDelete"
    /\ IF outcome = "ok"
       THEN /\ shops' = [ s \in DOMAIN shops \ { reqs[slot].id } |-> shops[s] ]
            /\ res' = DeleteShopResponse(reqs[slot].id, reqs[slot].had,
                                         200, TRUE, "Shop and products deleted")
       ELSE /\ res' = DeleteShopResponse(reqs[slot].id, reqs[slot].had,
                                         500, FALSE, outcome)
            /\ UNCHANGED shops
    /\ reqs' = [ reqs EXCEPT ![slot] = NoRequest ]
    /\ UNCHANGED << admin, products, orders, summary, env, served >>

\* The statuses of an order.
OrderStatuses == { "Pending", "Accepted", "Completed", "Cancelled" }

\* PATCH /api/admin/orders/:id/status: adminAuth, then
\* Order.findByIdAndUpdate(id, { status }) and res.json({ success: true,
\* order }), the order being null when no order has the id.
AdminOrderStatus(adminKey, id, status, outcome) ==
    /\ IF ~adminAuth(adminKey).next
       THEN /\ res' = AdminDenied(adminKey)
            /\ UNCHANGED orders
       ELSE IF outcome = "ok"
       THEN /\ orders' = { IF o.id = id THEN [ o EXCEPT !.status = status ] ELSE o :
                             o \in orders }
            /\ res' = [ NoResponse EXCEPT !.op = "orderStatus", !.status = 200,
                                          !.success = TRUE,
                                          !.data = << [ id |-> id ] >> ]
       ELSE /\ res' = [ NoResponse EXCEPT !.op = "orderStatus", !.status = 500,
                                          !.message = outcome,
                                          !.data = << [ id |-> id ] >> ]
            /\ UNCHANGED orders
    /\ UNCHANGED << shops, admin, products, summary, writeVars >>

-----------------------------------------------------------------------------
(* The writes of routes/products.js *)

\* const finalShopId = shopId || '698dc943148fdab957c75f4c': the default is
\* the id of a shop that is none of the model's shops.
DefaultShopId == NoSuchShop

\* The instant at which the model's product creations happen, after the
\* createdAt of every document of the catalogue.
Now == 5

\* A response of a product route, with the id of the product.
ProductResponse(op, id, status, success, message) ==
    [ NoResponse EXCEPT !.op = op, !.status = status, !.success = success,
                        !.message = message, !.data = << [ id |-> id ] >> ]

\* POST /api/products: the presence test (a price of 0 is falsy), the sign
\* test, then new Product({ ..., isAvailable: true }) and save(), with no
\* check that the shop exists.  id is the _id the new document gets.
ProductCreate(id, shopId, price, outcome) ==
    /\ id \in ProductIds \ { p.id : p \in products }
    /\ IF FalsyJson(price)
       THEN /\ res' = ProductResponse("createProduct", id, 400, FALSE,
                                      "Name, description, and price are required")
            /\ UNCHANGED products
       ELSE IF ToNumber(price) < 0
       THEN /\ res' = ProductResponse("createProduct", id, 400, FALSE,
                                      "Price cannot be negative")
            /\ UNCHANGED products
       ELSE IF outcome = "ok"
       THEN /\ products' = products \cup
                             { [ id |-> id, shopId |-> OrDefault(shopId, DefaultShopId),
                                 isAvailable |-> TRUE, category |-> "General",
                                 createdAt |-> Now ] }
            /\ res' = ProductResponse("createProduct", id, 201, TRUE,
                                      "Product created successfully")
       ELSE /\ res' = ProductResponse("createProduct", id, 500, FALSE,
                                      "Failed to create product")
            /\ UNCHANGED products
    /\ UNCHANGED << shops, admin, orders, summary, writeVars >>

\* DELETE /api/products/:id: findByIdAndDelete, 404 when no product has the id.
ProductDelete(id, outcome) ==
    /\ IF outcome # "ok"
       THEN /\ res' = ProductResponse("deleteProduct", id, 500, FALSE,
                                      "Failed to delete product")
            /\ UNCHANGED products
       ELSE IF \E p \in products : p.id = id
       THEN /\ products' = { p \in products : p.id # id }
            /\ res' = ProductResponse("deleteProduct", id, 200, TRUE,
                                      "Product deleted successfully")
       ELSE /\ res' = ProductResponse("deleteProduct", id, 404, FALSE,
                                      "Product not found")
            /\ UNCHANGED products
    /\ UNCHANGED << shops, admin, orders, summary, writeVars >>

\* The toggle requests a product may still be given: the model serves
\* MaxToggles successful toggles of a product at most.
MaxToggles == 3
InFlight(id) ==
    Cardinality({ slot \in Slots : /\ reqs[slot].route = "toggleProduct"
                                   /\ reqs[slot].id = id })

\* PUT /api/products/:id/toggle-availability: const product = await
\* Product.findById(id); 404 when there is none.
ProductToggleFind(slot, id, outcome) ==
    /\ reqs[slot].pc = "idle"
    /\ served[id] + InFlight(id) < MaxToggles
    /\ IF outcome # "ok"
       THEN /\ res' = ProductResponse("toggleProduct", id, 500, FALSE,
                                      "Failed to toggle product availability")
            /\ UNCHANGED reqs
       ELSE IF \E p \in products : p.id = id
       THEN /\ reqs' = [ reqs EXCEPT ![slot] =
                           [ pc |-> "found", route |-> "toggleProduct", id |-> id,
                             read |-> (CHOOSE p \in products : p.id = id).isAvailable,
                             had |-> {} ] ]
            /\ UNCHANGED res
       ELSE /\ res' = ProductResponse("toggleProduct", id, 404, FALSE,
                                      "Product not found")
            /\ UNCHANGED reqs
    /\ UNCHANGED << shops, admin, products, orders, summary, env, served >>

\* product.isAvailable = !product.isAvailable: the flag save() writes is the
\* negation of the flag findById read, whatever the store holds by now.
SavedFlag(read, stored) == ~read

\* await product.save(); res.json({ success: true, data: { isAvailable } }).
\* save() writes the modified path isAvailable; it throws when the store
\* fails or when the document is no longer there.
ProductToggleSave(slot, outcome) ==
    /\ reqs[slot].pc = "found"
    /\ reqs[slot].route = "toggleProduct"
    /\ LET id == reqs[slot].id
       IN  IF outcome = "ok" /\ \E p \in products : p.id = id
           THEN /\ products' =
                     { IF p.id = id
                       THEN [ p EXCEPT !.isAvailable =
                                         SavedFlag(reqs[slot].read, p.isAvailable) ]
                       ELSE p : p \in products }
                /\ served' = [ served EXCEPT ![id] = @ + 1 ]
                /\ res' = [ ProductResponse("toggleProduct", id, 200, TRUE, "")
                              EXCEPT !.summary = << [ isAvailable |-> ~reqs[slot].read ] >> ]
           ELSE /\ res' = ProductResponse("toggleProduct", id, 500, FALSE,
                                          "Failed to toggle product availability")
                /\ UNCHANGED << products, served >>
    /\ reqs' = [ reqs EXCEPT ![slot] = NoRequest ]
    /\ UNCHANGED << shops, admin, orders, summary, env >>

-----------------------------------------------------------------------------
(* GET /api/dashboard/products/:shopId and GET /api/dashboard/orders/:shopId *)

\* const { page = 1, limit = 10 } = req.query
DefaultPage == 1
DefaultLimit == 10

\* The number that arithmetic and parseInt read in a query value, the text
\* of an integer; the default when the caller gave none.
QueryNumber(x, d) == IF x = Undefined THEN d ELSE x[1]

\* Math.ceil(total / limit)
Ceil(total, limit) == (total + limit - 1) \div limit

\* A skip that passes the requested page over as well.
SkipThroughPage(page, limit) == page * limit

\* const skip = (page - 1) * limit
Skip(page, limit) == (page - 1) * limit

\* .sort({ createdAt: -1 }): the orders in which the store can return the
\* documents, as sequences of ids: newest first, and documents of equal
\* createdAt in any order.
NewestFirst(docs) ==
    SortedBy({ d.id : d \in docs },
             [ id \in { d.id : d \in docs } |->
                 0 - (CHOOSE d \in docs : d.id = id).createdAt ])

\* .skip(skip).limit(n) of a sorted result.
SkipLimit(sorted, skip, n) ==
    [ i \in 1 .. (IF skip + n <= Len(sorted) THEN n
                  ELSE IF skip <= Len(sorted) THEN Len(sorted) - skip
                  ELSE 0) |-> sorted[skip + i] ]

\* query.isAvailable = isAvailable === 'true', when the caller gave isAvailable.
ProductQuery(shopId, isAvailable) ==
    { p \in products : /\ p.shopId = shopId
                       /\ \/ isAvailable = Undefined
                          \/ p.isAvailable = (isAvailable = << "true" >>) }

\* query.status = status, when the caller gave status.
OrderQuery(shopId, status) ==
    { o \in orders : /\ o.shopId = shopId
                     /\ status = Undefined \/ << o.status >> = status }

\* pagination: { page: parseInt(page), limit: parseInt(limit), total,
\* pages: Math.ceil(total / limit), hasMore: skip + products.length < total }
Pagination(page, limit, total, length, filter) ==
    [ page |-> page, limit |-> limit, total |-> total,
      pages |-> Ceil(total, limit),
      hasMore |-> Skip(page, limit) + length < total,
      filter |-> filter ]

\* A response of a paginated route, with the shop id of the request.
PageResponse(op, shopId, status, success, message, error, data, pagination) ==
    [ NoResponse EXCEPT !.op = op, !.shopId = << shopId >>, !.status = status,
                        !.success = success, !.message = message,
                        !.error = error, !.data = data,
                        !.summary = pagination ]

\* The page of the documents matching the query: the find and the count of
\* the Promise.all, on a collection no request is writing to.
PageOf(op, shopId, matching, page, limit, filter) ==
    \E sorted \in NewestFirst(matching) :
        LET data == SkipLimit(sorted, Skip(QueryNumber(page, DefaultPage),
                                           QueryNumber(limit, DefaultLimit)),
                              QueryNumber(limit, DefaultLimit))
        IN  res' = PageResponse(op, shopId, 200, TRUE, "", "",
                     [ i \in DOMAIN data |->
                         [ id |-> data[i],
                           createdAt |-> (CHOOSE d \in matching : d.id = data[i]).createdAt ] ],
                     Pagination(QueryNumber(page, DefaultPage),
                                QueryNumber(limit, DefaultLimit),
                                Cardinality(matching), Len(data), filter))

\* GET /api/dashboard/products/:shopId
DashProducts(shopId, page, limit, isAvailable, outcome) ==
    /\ IF outcome = "ok"
       THEN PageOf("products", shopId, ProductQuery(shopId, isAvailable),
                   page, limit, isAvailable)
       ELSE res' = PageResponse("products", shopId, 500, FALSE,
                                "Failed to load products", outcome, << >>, << >>)
    /\ UNCHANGED << shops, admin, products, orders, summary, writeVars >>

\* GET /api/dashboard/orders/:shopId
DashOrders(shopId, page, limit, status, outcome) ==
    /\ IF outcome = "ok"
       THEN PageOf("orders", shopId, OrderQuery(shopId, status),
                   page, limit, status)
       ELSE res' = PageResponse("orders", shopId, 500, FALSE,
                                "Failed to load orders", outcome, << >>, << >>)
    /\ UNCHANGED << shops, admin, products, orders, summary, writeVars >>

-----------------------------------------------------------------------------
(* The discovery specification *)

\* The origins of the model's requests: O = (12.97, 77.59); a point on the
\* equator, (0, 77.59); (95, -200), out of range; and two origins with a
\* coordinate missing.
OriginO == << << 1297 >>, << 7759 >> >>
OriginEquator == << << 0 >>, << 7759 >> >>
OriginOutOfRange == << << 9500 >>, << -20000 >> >>
OtherOrigins ==
    { OriginEquator, OriginOutOfRange,
      << Undefined, << 7759 >> >>, << << 1297 >>, Undefined >> }
NearbyRadii == { Undefined, << 0 >>, << 5 >>, << 15 >> }
RadiusRadii == { Undefined, << 0 >>, << 5 >>, << 20016 >> }

\* Requests << latitude, longitude, radius >>: every radius at O, no radius at
\* the other origins.
RequestsWith(radii) ==
    { << OriginO[1], OriginO[2], r >> : r \in radii }
      \cup { << o[1], o[2], Undefined >> : o \in OtherOrigins }

\* The shop documents the store can hold at the start: a location as saved by
\* its owner (or never saved), approved by an admin or not, and active.
ShopCatalogue ==
    { ShopDoc(loc, TRUE, TRUE) : loc \in SavedLocations \cup { UnsetLocation } }
      \cup { ShopDoc([ lat |-> 1300, lon |-> 7759, deliveryRadius |-> 5,
                       locationSet |-> TRUE ], TRUE, FALSE) }

InitShops == shops \in [ ShopIds -> ShopCatalogue ]

Init ==
    /\ InitShops
    /\ admin = NoAdmin
    /\ NoWrites
    /\ res = NoResponse
    /\ products = InitProducts
    /\ orders = InitOrders
    /\ summary = NoSummary

Next ==
    \/ \E q \in RequestsWith(NearbyRadii) : NearbyShops(q[1], q[2], q[3])
    \/ \E q \in RequestsWith({ Undefined }) : DeliverableShops(q[1], q[2])
    \/ \E q \in RequestsWith(RadiusRadii) : RadiusShops(q[1], q[2], q[3])
    \/ \E id \in ShopIds \cup { 0 } : ToggleShopFind(id)
    \/ ToggleShopSave

Spec == Init /\ [][Next]_vars

-----------------------------------------------------------------------------
(* The dashboard specification *)

\* The days parameters of the model's stats requests: none, and one day.
StatsDaysGiven == { Undefined, << 1 >> }

\* The store holds the products and the orders of the catalogue, or none.
InitDash ==
    /\ shops = [ s \in ShopIds |-> ShopDoc(UnsetLocation, TRUE, TRUE) ]
    /\ admin = NoAdmin
    /\ NoWrites
    /\ res = NoResponse
    /\ \/ products = InitProducts /\ orders = InitOrders
       \/ products = {} /\ orders = {}
    /\ summary = NoSummary

NextDash ==
    \/ \E ownerId \in ShopIds \cup { 0 } : SummaryRequest(ownerId)
    \/ \E outcome \in StoreOutcomes : SummaryShopFound(outcome)
    \/ \E shopId \in ShopIds \cup { 0 }, days \in StatsDaysGiven :
         StatsRequest(shopId, days)
    \/ \E f \in AllFacetNames : SubQueryReturns(f)
    \/ \E f \in AllFacetNames, message \in StoreErrors : SubQueryFails(f, message)
    \/ SummaryJoin
    \/ StatsJoin

SpecDash == InitDash /\ [][NextDash]_vars

-----------------------------------------------------------------------------
(* The location specification *)

\* The bodies of the model's location-saves, for a shop id: a location with
\* each radius of interest; the same with a coordinate missing, zero or out
\* of range; and the point (0, 0) sent as the strings "0" and "0".
SaveBodies(shopId) ==
    { << shopId, << 1308 >>, << 7759 >>, r >> :
        r \in { Undefined, << 0 >>, << 5 >>, << 50 >>, << 51 >>, << -1 >> } }
      \cup { << shopId, Undefined, << 7759 >>, << 5 >> >>,
             << shopId, << 0 >>, << 7759 >>, << 5 >> >>,
             << shopId, << 9500 >>, << 7759 >>, << 5 >> >>,
             << shopId, JsonString(0), JsonString(0), << 50 >> >> }

SaveRequests ==
    UNION { SaveBodies(<< s >>) : s \in ShopIds }
      \cup { << Undefined, << 1308 >>, << 7759 >>, << 5 >> >>,
             << << NoSuchShop >>, << 1308 >>, << 7759 >>, << 5 >> >> }

\* At the start a shop has the location of a shop that never saved one, or
\* one its owner saved.
InitLoc ==
    /\ shops \in [ ShopIds -> { ShopDoc(loc, TRUE, TRUE) :
                                 loc \in SavedLocations \cup { UnsetLocation } } ]
    /\ admin = NoAdmin
    /\ NoWrites
    /\ res = NoResponse
    /\ products = InitProducts
    /\ orders = InitOrders
    /\ summary = NoSummary

NextLoc ==
    \/ \E q \in SaveRequests : LocationSave(q[1], q[2], q[3], q[4])
    \/ \E shopId \in ShopIds \cup { NoSuchShop } : LocationStatus(shopId)
    \/ CreateGeoIndex

SpecLoc == InitLoc /\ [][NextLoc]_vars

-----------------------------------------------------------------------------
(* The specification of the dashboard's waiting *)

\* The dashboard routes as in NextDash, with one store error.
NextLive ==
    \/ \E ownerId \in ShopIds \cup { 0 } : SummaryRequest(ownerId)
    \/ \E outcome \in { "ok", "QueryTimeout" } : SummaryShopFound(outcome)
    \/ \E shopId \in ShopIds, days \in { Undefined } : StatsRequest(shopId, days)
    \/ \E f \in AllFacetNames : SubQueryReturns(f)
    \/ \E f \in AllFacetNames : SubQueryFails(f, "QueryTimeout")
    \/ SummaryJoin
    \/ StatsJoin

\* The event loop runs a handler whose Promise.all has settled: the two joins
\* are weakly fair.  Nothing in the routes or in mongoose.connect(mongoURI)
\* sets a deadline (maxTimeMS, socketTimeoutMS) on a query, so the answer of
\* the store to a query, result or error, is not: the store may never answer.
SpecLive ==
    /\ InitDash
    /\ [][NextLive]_vars
    /\ WF_vars(SummaryJoin)
    /\ WF_vars(StatsJoin)

-----------------------------------------------------------------------------
(* The specification of the distance function *)

\* The arguments of a call of calculateDistance, and its results.
DistanceArgs(p, q) ==
    [ NoResponse EXCEPT !.op = "distanceArgs",
                        !.data = << [ from |-> p, to |-> q ] >> ]

\* calculateDistance applied to the arguments, both ways round, and to the
\* first point twice.
DistanceCall ==
    /\ res.op = "distanceArgs"
    /\ LET p == res.data[1].from
           q == res.data[1].to
       IN  res' = [ res EXCEPT
                      !.op = "distance",
                      !.data = << [ from |-> p, to |-> q,
                                    forward |-> calculateDistance(p[1], p[2], q[1], q[2]),
                                    backward |-> calculateDistance(q[1], q[2], p[1], p[2]),
                                    self |-> calculateDistance(p[1], p[2], p[1], p[2]) ] >> ]
    /\ UNCHANGED << shops, admin, dashVars >>

InitGeo ==
    /\ shops = [ s \in ShopIds |-> ShopDoc(UnsetLocation, TRUE, TRUE) ]
    /\ admin = NoAdmin
    /\ NoWrites
    /\ \E p, q \in Points : res = DistanceArgs(p, q)
    /\ products = InitProducts
    /\ orders = InitOrders
    /\ summary = NoSummary

NextGeo == DistanceCall

SpecGeo == InitGeo /\ [][NextGeo]_vars

-----------------------------------------------------------------------------
(* The admin specification *)

\* The adminkey headers of the model's requests: none, the empty string, the
\* value of ADMIN_KEY and another key.
HeaderKeys == { Undefined, << "" >>, << AdminKey >>, << WrongKey >> }

\* ADMIN_KEY is not set, is set to the empty string, or is set.
InitAdmin ==
    /\ shops = [ s \in ShopIds |-> ShopDoc(UnsetLocation, TRUE, TRUE) ]
    /\ admin = NoAdmin
    /\ res = NoResponse
    /\ products = InitProducts
    /\ orders = InitOrders
    /\ summary = NoSummary
    /\ env \in { Undefined, << "" >>, << AdminKey >> }
    /\ reqs = [ slot \in Slots |-> NoRequest ]
    /\ served = [ p \in ProductIds |-> 0 ]

\* The admin routes under every header, one shop deletion at a time.
NextAdmin ==
    \/ \E adminKey \in HeaderKeys, id \in ShopIds \cup { NoSuchShop } :
         AdminToggleShop(adminKey, id)
    \/ ToggleShopSave
    \/ \E adminKey \in HeaderKeys, id \in ShopIds \cup { NoSuchShop } :
         DeleteShopRequest(1, adminKey, id)
    \/ \E outcome \in { "ok", "QueryTimeout" } : DeleteShopProducts(1, outcome)
    \/ \E outcome \in { "ok", "QueryTimeout" } : DeleteShopDoc(1, outcome)
    \/ \E adminKey \in HeaderKeys : AdminOrderStatus(adminKey, 3, "Accepted", "ok")

SpecAdmin == InitAdmin /\ [][NextAdmin]_vars

-----------------------------------------------------------------------------
(* The specification of shop deletion *)

\* An admin deletes shops, one request at a time, while products are
\* created for the model's shops.
NextDelete ==
    \/ \E id \in ShopIds : DeleteShopRequest(1, << AdminKey >>, id)
    \/ \E outcome \in { "ok", "QueryTimeout" } : DeleteShopProducts(1, outcome)
    \/ \E outcome \in { "ok", "QueryTimeout" } : DeleteShopDoc(1, outcome)
    \/ \E id \in ProductIds, shopId \in ShopIds :
         ProductCreate(id, << shopId >>, << 10 >>, "ok")

SpecDelete == InitDash /\ [][NextDelete]_vars

-----------------------------------------------------------------------------
(* The specification of the product toggle *)

\* Toggle requests for the products of the catalogue and for a product that
\* does not exist, MaxRequests of them in flight at once.
NextToggle ==
    \/ \E slot \in Slots, id \in ProductIds, outcome \in { "ok", "QueryTimeout" } :
         ProductToggleFind(slot, id, outcome)
    \/ \E slot \in Slots, outcome \in { "ok", "QueryTimeout" } :
         ProductToggleSave(slot, outcome)

SpecToggle == InitDash /\ [][NextToggle]_vars

-----------------------------------------------------------------------------
(* The specification of the summary under writes *)

\* Summary requests of the owner of shop 1 whose sub-queries all return,
\* while a product of the shop is created, one is deleted, one is toggled
\* and the pending order of the shop is accepted.
NextWrites ==
    \/ SummaryRequest(OwnerOf(1))
    \/ SummaryShopFound("ok")
    \/ \E f \in FacetNames : SubQueryReturns(f)
    \/ SummaryJoin
    \/ ProductCreate(MaxProductId, << 1 >>, << 10 >>, "ok")
    \/ ProductDelete(1, "ok")
    \/ ProductToggleFind(1, 2, "ok")
    \/ ProductToggleSave(1, "ok")
    \/ AdminOrderStatus(<< AdminKey >>, 3, "Accepted", "ok")

\* The store holds the products and the orders of the catalogue.
InitWrites == InitDash /\ products = InitProducts

SpecWrites == InitWrites /\ [][NextWrites]_vars

-----------------------------------------------------------------------------
(* The pagination specification *)

\* The products of the catalogue, the two of shop 1 created at the same
\* instant (by one import, or by two requests in the same millisecond).
TiedProducts ==
    { IF p.id = 2 THEN [ p EXCEPT !.createdAt = 1 ] ELSE p : p \in InitProducts }

\* The pages and limits of the model's requests: none given, and small ones.
PagesGiven == { Undefined, << 1 >>, << 2 >>, << 3 >> }
LimitsGiven == { Undefined, << 1 >>, << 2 >> }

\* The store holds the catalogue, or the catalogue with the tie, and no
\* request writes to it.
InitPage ==
    /\ shops = [ s \in ShopIds |-> ShopDoc(UnsetLocation, TRUE, TRUE) ]
    /\ admin = NoAdmin
    /\ NoWrites
    /\ res = NoResponse
    /\ products \in { InitProducts, TiedProducts }
    /\ orders = InitOrders
    /\ summary = NoSummary

NextPage ==
    \/ \E shopId \in ShopIds \cup { NoSuchShop }, page \in PagesGiven,
          limit \in LimitsGiven, isAvailable \in { Undefined, << "true" >>, << "false" >> },
          outcome \in { "ok", "QueryTimeout" } :
         DashProducts(shopId, page, limit, isAvailable, outcome)
    \/ \E shopId \in ShopIds \cup { NoSuchShop }, page \in PagesGiven,
          limit \in LimitsGiven, status \in { Undefined, << "Completed" >> },
          outcome \in { "ok", "QueryTimeout" } :
         DashOrders(shopId, page, limit, status, outcome)

SpecPage == InitPage /\ [][NextPage]_vars

-----------------------------------------------------------------------------
(* Properties of the discovery routes *)

Discovery == { "nearby", "deliverable", "radius" }

\* The ids of the shops a response lists.
ReturnedIds == { res.data[i].id : i \in DOMAIN res.data }

\* The distance, in metres, from the origin of the last request to shop s.
DistanceFromOrigin(s) ==
    calculateDistance(res.lat[1], res.lon[1], shops[s].lat, shops[s].lon)

Listed(s) == shops[s].isActive /\ shops[s].isApproved

NoDuplicates == Cardinality(ReturnedIds) = Len(res.data)

AscendingByDistance ==
    \A i, j \in DOMAIN res.data : i < j => res.data[i].distance <= res.data[j].distance

\* C1: a successful /shops/deliverable response lists exactly the active and
\* approved shops whose distance from the origin is at most their own
\* deliveryRadius, each once.
C1_DeliverableExact ==
    (res.op = "deliverable" /\ res.success) =>
        /\ ReturnedIds = { s \in ShopIds : /\ Listed(s)
                                           /\ DistanceFromOrigin(s)
                                                <= shops[s].deliveryRadius * 1000 }
        /\ NoDuplicates

\* A deliverable response that lists a shop 12.2 km away (its own radius is 50)
\* and leaves out another active, approved shop at the same place (radius 10).
C1_Witness ==
    /\ res.op = "deliverable" /\ res.success
    /\ \E s, u \in ShopIds :
         /\ Listed(s) /\ Listed(u)
         /\ DistanceFromOrigin(s) = DistanceFromOrigin(u)
         /\ DistanceFromOrigin(s) > DefaultNearbyKm * 1000
         /\ s \in ReturnedIds /\ u \notin ReturnedIds

\* C2: in a successful /shops/nearby response every reported distance is at
\* most the search radius r (10 when the caller gave none), for every r >= 0,
\* and the list is in non-decreasing order of reported distance.
C2_NearbyWithinRadius ==
    (res.op = "nearby" /\ res.success) =>
        LET r == IF res.radius = Undefined THEN DefaultNearbyKm ELSE res.radius[1]
        IN  /\ \A i \in DOMAIN res.data : res.data[i].distance <= r * 100
            /\ AscendingByDistance

\* C3: no discovery response lists a shop that is inactive or not approved.
C3_OnlyActiveApproved ==
    (res.op \in Discovery /\ res.success) => \A s \in ReturnedIds : Listed(s)

\* A radius response over the whole globe that lists a shop and leaves out a
\* shop an admin deactivated.
C3_Witness ==
    /\ res.op = "radius" /\ res.success /\ res.radius = << 20016 >>
    /\ ReturnedIds # {}
    /\ \E s \in ShopIds : ~shops[s].isActive /\ shops[s].isApproved /\ s \notin ReturnedIds

\* The origin of the last request is missing a coordinate or is out of range.
InvalidOrigin ==
    \/ res.lat = Undefined
    \/ res.lon = Undefined
    \/ ~InRange(res.lat[1], res.lon[1])

\* C4: a discovery request with a missing or out-of-range coordinate ends in
\* an invalid-input response and issues no store query.
C4_InvalidInputFailsFast ==
    (res.op \in Discovery /\ InvalidOrigin) =>
        /\ ~res.success
        /\ res.status = 400
        /\ res.store = "none"

\* C5: a successful /shops/radius response to a radius R > 0 lists exactly the
\* active and approved shops within R of the origin, each once, in ascending
\* order of distance, whatever their deliveryRadius.
C5_RadiusExact ==
    (res.op = "radius" /\ res.success /\ res.radius # Undefined /\ res.radius # << 0 >>) =>
        /\ ReturnedIds = { s \in ShopIds : /\ Listed(s)
                                           /\ DistanceFromOrigin(s) <= res.radius[1] * 1000 }
        /\ NoDuplicates
        /\ AscendingByDistance
        /\ (\A s \in ShopIds : DistanceFromOrigin(s) <= res.radius[1] * 1000)
             => ReturnedIds = { s \in ShopIds : Listed(s) }

\* A radius response that lists every active, approved shop, one of them
\* farther away than its own deliveryRadius.
C5_Witness ==
    /\ res.op = "radius" /\ res.success /\ res.radius = << 20016 >>
    /\ ReturnedIds = { s \in ShopIds : Listed(s) }
    /\ \E s \in ReturnedIds : DistanceFromOrigin(s) > shops[s].deliveryRadius * 1000

\* C6: a successful /shops/radius response to radius 0 lists only shops at the
\* origin.
C6_RadiusZero ==
    (res.op = "radius" /\ res.success /\ res.radius = << 0 >>) =>
        \A s \in ReturnedIds : DistanceFromOrigin(s) = 0

\* The shops in the order some /shops/deliverable response would list them for
\* the origin of the last request, over the same store.
DeliverableNow == AggregateDeliverable(shops, res.lat[1], res.lon[1])

\* C7: in a successful /shops/nearby response withinDeliveryRadius is
\* (distance <= the shop's deliveryRadius) and does not filter: the response
\* lists every active, approved shop within the search radius, whatever its
\* flag, and a listed shop whose flag is false is in no /shops/deliverable
\* result for that origin.
C7_WithinDeliveryRadiusInformational ==
    (res.op = "nearby" /\ res.success) =>
        LET r == IF res.radius = Undefined THEN DefaultNearbyKm ELSE res.radius[1]
        IN  /\ \A i \in DOMAIN res.data :
                 LET e == res.data[i]
                 IN  /\ e.withinDeliveryRadius
                          = (DistanceFromOrigin(e.id) <= shops[e.id].deliveryRadius * 1000)
                     /\ ~e.withinDeliveryRadius =>
                          \A d \in DeliverableNow : \A k \in DOMAIN d : d[k] # e.id
            /\ { s \in ShopIds : Listed(s) /\ DistanceFromOrigin(s) <= r * 1000 }
                 \subseteq ReturnedIds

\* A nearby response to a 15 km search that lists a shop 12.2 km away whose
\* deliveryRadius is 10, flagged false, next to a shop flagged true.
C7_Witness ==
    /\ res.op = "nearby" /\ res.success /\ res.radius = << 15 >>
    /\ \E i, j \in DOMAIN res.data :
         /\ ~res.data[i].withinDeliveryRadius
         /\ res.data[i].distance = 1223
         /\ res.data[i].deliveryRadius = 10
         /\ res.data[j].withinDeliveryRadius

\* The shops the store query of the last discovery request matches.
Matched ==
    CASE res.op = "nearby" ->
           { s \in ShopIds : Listed(s) /\ DistanceFromOrigin(s)
                                            <= NearbyMaxDistanceKm(res.radius) * 1000 }
      [] res.op = "deliverable" ->
           { s \in ShopIds : Listed(s) /\ DistanceFromOrigin(s)
                                            <= shops[s].deliveryRadius * 1000 }
      [] res.op = "radius" ->
           { s \in ShopIds : Listed(s) /\ DistanceFromOrigin(s)
                                            <= RadiusSearchRadius(res.radius) * 1000 }

-----------------------------------------------------------------------------
(* Properties of the dashboard summary *)

\* The summary request has ended and res is its response.
SummaryEnded == summary.pc = "done" /\ res.op = "summary"

SomeFacetFailed == \E f \in FacetNames : summary.facet[f].state = "failed"

\* C9: the summary is all-or-nothing: once a sub-query has failed the request
\* ends in a failure response that carries no facet, and a success response
\* is sent only when every sub-query has returned.
C9_SummaryAllOrNothing ==
    SummaryEnded =>
        /\ SomeFacetFailed => (~res.success /\ res.status = 500 /\ DOMAIN res.summary = {})
        /\ res.success => \A f \in FacetNames : summary.facet[f].state = "ok"

\* A summary that ended in a failure although some sub-queries had returned
\* their counts.
C9_Witness ==
    /\ SummaryEnded
    /\ ~res.success
    /\ \E f, g \in FacetNames :
         /\ summary.facet[f].state = "failed"
         /\ summary.facet[g].state = "ok" /\ summary.facet[g].value > 0

\* C10: the failure response to a failed sub-query identifies the sub-query:
\* the same error thrown by any other sub-query would give another response.
C10_FailureNamesFacet ==
    (SummaryEnded /\ summary.rejection.facet # "") =>
        \A f \in FacetNames \ { summary.rejection.facet } :
            SummaryError(StoreError(f, summary.rejection.message)) # res

-----------------------------------------------------------------------------
(* Properties of the dashboard's fan-out and of its figures *)

\* The request in flight has reached its Promise.all.
FannedOut ==
    \/ summary.pc = "fanout"
    \/ /\ summary.pc = "done"
       /\ \E f \in AllFacetNames : summary.facet[f].state # "unissued"

\* Every sub-query of the request's Promise.all has been issued.
AllIssued ==
    \A f \in RouteFacets(summary.route) : summary.facet[f].state # "unissued"

C12_SummaryFigures ==
    (SummaryEnded /\ res.success) =>
        LET d == res.summary
            mine == { o \in orders : o.shopId = d.shopId }
            stock == { p \in products : p.shopId = d.shopId }
            Count(status) == Cardinality({ o \in mine : o.status = status })
        IN  /\ d.productsTotal = Cardinality(stock)
            /\ d.productsAvailable = Cardinality({ p \in stock : p.isAvailable })
            /\ d.ordersTotal = Cardinality(mine)
            /\ d.ordersPending = Count("Pending")
            /\ d.ordersAccepted = Count("Accepted")
            /\ d.ordersCompleted = Count("Completed")
            /\ d.revenueToday = SumAmounts({ o \in mine : /\ o.status = "Completed"
                                                          /\ o.createdDay >= Today })
            /\ d.todayOrders = Cardinality({ o \in mine : o.createdDay >= Today })
            /\ (mine = {} /\ stock = {}) =>
                  /\ d.productsTotal = 0 /\ d.productsAvailable = 0
                  /\ d.ordersTotal = 0 /\ d.ordersPending = 0
                  /\ d.ordersAccepted = 0 /\ d.ordersCompleted = 0
                  /\ d.revenueToday = 0 /\ d.todayOrders = 0

\* A summary of a shop with two Completed orders, one of them of yesterday:
\* today's revenue is the amount of the other.
C12_Witness ==
    /\ SummaryEnded /\ res.success
    /\ res.summary.ordersCompleted = 2
    /\ res.summary.revenueToday = 30
    /\ res.summary.productsTotal = 2 /\ res.summary.productsAvailable = 1

StatsEnded == summary.pc = "done" /\ res.op = "stats"

\* C13: a successful stats response over a window of N days has one daily
\* bucket for each day on which the shop has a Completed order in the window,
\* with the number and the revenue of those orders, in ascending order of day
\* (orders of other statuses, of other shops or older are left out), and one
\* category bucket for each category of the shop's products, with their number.
C13_DailyStatsExact ==
    (StatsEnded /\ res.success) =>
        LET mine == { o \in orders : /\ o.shopId = summary.shopId
                                     /\ o.status = "Completed"
                                     /\ o.createdDay >= Today - summary.days }
            stock == { p \in products : p.shopId = summary.shopId }
            daily == res.summary.daily
        IN  /\ { daily[i].day : i \in DOMAIN daily } = { o.createdDay : o \in mine }
            /\ \A i \in DOMAIN daily :
                  LET ofDay == { o \in mine : o.createdDay = daily[i].day }
                  IN  /\ daily[i].orders = Cardinality(ofDay)
                      /\ daily[i].revenue = SumAmounts(ofDay)
            /\ \A i, j \in DOMAIN daily : i < j => daily[i].day < daily[j].day
            /\ res.summary.categories =
                  { [ category |-> c,
                      count |-> Cardinality({ p \in stock : p.category = c }) ] :
                    c \in { p.category : p \in stock } }

-----------------------------------------------------------------------------
(* Properties of the location-save and of the migration *)

\* The step was answered by the save route for shop s, with success.
SavedNow(s) ==
    res'.op = "saveLocation" /\ res'.success /\ res'.shopId = << s >>

\* The location fields the request answered by the next response asked for.
RequestedLocation ==
    [ lat |-> ToNumber(res'.lat), lon |-> ToNumber(res'.lon),
      deliveryRadius |-> ToNumber(res'.radius), locationSet |-> TRUE ]

\* C14: a location-save replaces the coordinate, the deliveryRadius and
\* locationSet of its shop in one step of the store, so that a read before the
\* step sees the old three values and a read after it the new three; it
\* changes no other shop.
C14_SaveReplacesTriple ==
    [][ res'.op = "saveLocation" =>
          \A s \in ShopIds :
            \/ LocationOf(shops'[s]) = LocationOf(shops[s])
            \/ SavedNow(s) /\ LocationOf(shops'[s]) = RequestedLocation ]_vars

\* A status read, after a save of (13.08, 77.59) with radius 5 to a shop that
\* had other values, that reports the three new values together.
C14_Witness ==
    /\ res.op = "status" /\ res.success
    /\ res.data[1].locationSet /\ res.data[1].hasCoordinates
    /\ res.data[1].deliveryRadius = 5
    /\ shops[res.data[1].id].lat = 1308

\* C15: a location-save for an existing shop, with coordinates in range (and
\* not zero: a zero coordinate is the matter of another property) and a
\* deliveryRadius, whose store call does not fail, is rejected exactly when
\* the deliveryRadius is below 0 or above 50; an accepted radius (0 and 50
\* included) is stored; and a rejected save changes nothing in the store.
C15_RadiusBounds ==
    [][ res'.op = "saveLocation" =>
          /\ ~res'.success => shops' = shops
          /\ ( /\ res'.store # "failed"
               /\ res'.shopId # Undefined /\ res'.lat # Undefined
               /\ res'.lon # Undefined /\ res'.radius # Undefined
               /\ res'.shopId[1] \in ShopIds
               /\ ToNumber(res'.lat) # 0 /\ ToNumber(res'.lon) # 0
               /\ InRange(ToNumber(res'.lat), ToNumber(res'.lon)) ) =>
               LET dr == ToNumber(res'.radius)
               IN  /\ res'.success <=> (dr >= 0 /\ dr <= MaxDeliveryRadiusKm)
                   /\ res'.success => shops'[res'.shopId[1]].deliveryRadius = dr ]_vars

\* C16: through location-saves and migrations, a shop whose locationSet is
\* true stores a latitude in [-90, 90], a longitude in [-180, 180] and a
\* deliveryRadius in [0, 50]; locationSet becomes true only in a successful
\* save of that shop and never becomes false again; and the location fields of
\* a shop that has saved one change only in a successful save of that shop.
C16_SavedLocationKept ==
    [][ \A s \in ShopIds :
          /\ shops'[s].locationSet =>
               /\ InRange(shops'[s].lat, shops'[s].lon)
               /\ shops'[s].deliveryRadius >= 0
               /\ shops'[s].deliveryRadius <= MaxDeliveryRadiusKm
          /\ shops[s].locationSet => shops'[s].locationSet
          /\ (~shops[s].locationSet /\ shops'[s].locationSet) => SavedNow(s)
          /\ ( /\ shops[s].locationSet
               /\ LocationOf(shops'[s]) # LocationOf(shops[s]) ) => SavedNow(s) ]_vars

-----------------------------------------------------------------------------
(* Properties of waiting, of failures, of ties and of the distance function *)

\* C17: every dashboard request that has issued a store query is answered
\* in the end, the store answering or not.
C17_EveryRequestAnswered ==
    (summary.pc \in { "findShop", "fanout" }) ~> (summary.pc = "done")

\* C18: the failure response to a request does not depend on the text of the
\* error its store call threw: when the same discovery request fails twice in
\* a row, the two responses are the same.
C18_FailureHidesError ==
    [][ ( /\ res.op \in Discovery /\ res.store = "failed"
          /\ res'.op = res.op /\ res'.store = "failed"
          /\ res'.lat = res.lat /\ res'.lon = res.lon
          /\ res'.radius = res.radius ) => res' = res ]_vars

\* C19: a successful /shops/nearby response is in ascending order of distance,
\* and two shops at the same distance come in the order of their ids.
C19_TiesByIdentifier ==
    (res.op = "nearby" /\ res.success) =>
        \A i, j \in DOMAIN res.data :
            i < j => \/ res.data[i].distance < res.data[j].distance
                     \/ /\ res.data[i].distance = res.data[j].distance
                        /\ res.data[i].id < res.data[j].id

\* C20: calculateDistance gives the same distance from a to b as from b to a,
\* gives 0 from a to a, and never gives a negative distance.
C20_DistanceSymmetric ==
    res.op = "distance" =>
        /\ res.data[1].forward = res.data[1].backward
        /\ res.data[1].self = 0
        /\ res.data[1].forward >= 0

\* The distance between Sydney and New York, computed both ways round.
C20_Witness ==
    /\ res.op = "distance"
    /\ res.data[1].from = << -3387, 15121 >> /\ res.data[1].to = << 4071, -7401 >>
    /\ res.data[1].forward = 15988394 /\ res.data[1].backward = 15988394

-----------------------------------------------------------------------------
(* Properties of the coordinate validation *)

\* The origin of the last request has a numeric latitude in [-90, 90] and a
\* numeric longitude in [-180, 180], and is not the unset point (0, 0).
ValidOrigin ==
    /\ res.lat # Undefined /\ res.lon # Undefined
    /\ InRange(res.lat[1], res.lon[1])
    /\ ~(res.lat[1] = 0 /\ res.lon[1] = 0)

\* C21: a discovery request whose origin has a numeric latitude in [-90, 90]
\* and a numeric longitude in [-180, 180], a latitude of 0 or a longitude of 0
\* included, passes validation and reaches the store query.
C21_ValidOriginReachesStore ==
    (res.op \in Discovery /\ ValidOrigin) =>
        /\ res.status # 400
        /\ res.store # "none"

-----------------------------------------------------------------------------
(* Properties of the admin routes *)

\* ADMIN_KEY is configured and the header of the request equals it.
KeyMatches(adminKey) == ~FalsyString(env) /\ adminKey = env

\* The request of this step to an admin route, carrying the header adminKey.
AdminRequest(adminKey) ==
    \/ \E id \in ShopIds \cup { NoSuchShop } : AdminToggleShop(adminKey, id)
    \/ \E id \in ShopIds \cup { NoSuchShop } : DeleteShopRequest(1, adminKey, id)
    \/ AdminOrderStatus(adminKey, 3, "Accepted", "ok")

\* C24: a request to an admin route whose adminkey header is not the
\* configured ADMIN_KEY starts no handler and changes no stored data; it ends
\* with status 500 when ADMIN_KEY is not configured and with status 403 when
\* the key is missing or different.  On a server without ADMIN_KEY no admin
\* handler is ever in flight and no stored data ever changes.
C24_AdminKeyRequired ==
    [][ /\ \A adminKey \in HeaderKeys :
             (AdminRequest(adminKey) /\ ~KeyMatches(adminKey)) =>
                 /\ res'.op = "adminAuth"
                 /\ res'.status = IF FalsyString(env) THEN 500 ELSE 403
                 /\ ~res'.success
                 /\ UNCHANGED << shops, products, orders, admin, reqs >>
        /\ FalsyString(env) =>
             /\ admin'.pc = "idle" /\ reqs'[1].pc = "idle"
             /\ UNCHANGED << shops, products, orders >> ]_vars

\* A request with a wrong key was answered 403 after a shop had been deleted
\* by a request with the right key.
C24_Witness ==
    /\ env = << AdminKey >>
    /\ res.op = "adminAuth" /\ res.status = 403
    /\ res.data[1].adminKey = << WrongKey >>
    /\ DOMAIN shops # ShopIds

\* C25: once a shop deletion request has ended, either the shop and every
\* product with its shopId are gone, or the shop and the products it had when
\* the request arrived are all still there.
C25_ShopAndProductsTogether ==
    (res.op = "deleteShop" /\ res.status # 0) =>
        LET id == res.shopId[1]
            mine == { p.id : p \in { q \in products : q.shopId = id } }
        IN  \/ id \notin DOMAIN shops /\ mine = {}
            \/ id \in DOMAIN shops /\ res.data[1].had \subseteq mine

\* The flag a product of the catalogue had at the start.
OriginalFlag(id) == (CHOOSE p \in InitProducts : p.id = id).isAvailable

\* C26: after n successful toggle-availability requests on a product, its
\* flag is the original one when n is even and the negation when n is odd.
C26_ToggleParity ==
    \A p \in products :
        p.isAvailable = IF served[p.id] % 2 = 0
                        THEN OriginalFlag(p.id)
                        ELSE ~OriginalFlag(p.id)

-----------------------------------------------------------------------------
(* Properties of the summary under writes *)

\* C22: in every successful summary response the available products are no
\* more than the total (the unavailable ones are not negative), and the
\* pending, accepted and completed orders together are no more than the total.
C22_SummaryConsistent ==
    (res.op = "summary" /\ res.success) =>
        /\ res.summary.productsAvailable <= res.summary.productsTotal
        /\ res.summary.productsUnavailable >= 0
        /\ res.summary.ordersPending + res.summary.ordersAccepted
             + res.summary.ordersCompleted <= res.summary.ordersTotal

-----------------------------------------------------------------------------
(* Properties of the dashboard pagination *)

\* A successful response r of a paginated route.
IsPage(r) == r.op \in { "products", "orders" } /\ r.success

\* The records that match the request that page r answers.
MatchingOf(r) ==
    IF r.op = "products"
    THEN ProductQuery(r.shopId[1], r.summary.filter)
    ELSE OrderQuery(r.shopId[1], r.summary.filter)

\* Page r holds the records at positions (p-1)*L+1 .. min(p*L, N) of order.
SliceOf(r, order) ==
    LET p == r.summary.page
        L == r.summary.limit
        N == Len(order)
        last == IF p * L < N THEN p * L ELSE N
    IN  /\ Len(r.data) = (IF last > (p - 1) * L THEN last - (p - 1) * L ELSE 0)
        /\ \A i \in DOMAIN r.data : r.data[i].id = order[(p - 1) * L + i]

\* The figures of page r: total = N, pages = ceil(N/L), hasMore iff p*L < N.
FiguresOf(r) ==
    LET p == r.summary.page
        L == r.summary.limit
        N == Cardinality(MatchingOf(r))
    IN  /\ r.summary.total = N
        /\ r.summary.pages * L >= N /\ (r.summary.pages - 1) * L < N
        /\ r.summary.pages >= 0
        /\ r.summary.hasMore <=> (p * L < N)

\* Pages r and q answer the same query with the same limit.
SameQuery(r, q) ==
    /\ r.op = q.op /\ r.shopId = q.shopId
    /\ r.summary.filter = q.summary.filter /\ r.summary.limit = q.summary.limit

\* The matching records of page r have pairwise distinct createdAt.
DistinctCreatedAt(r) ==
    \A a, b \in MatchingOf(r) : a.createdAt = b.createdAt => a = b

\* Page q, and page r when it answered the same query just before, are slices
\* of one newest-first order of the matching records, with the right figures.
PagesOfOneOrder(r, q) ==
    /\ FiguresOf(q)
    /\ \E order \in NewestFirst(MatchingOf(q)) :
         /\ SliceOf(q, order)
         /\ (IsPage(r) /\ SameQuery(r, q)) => SliceOf(r, order)

\* C23 as stated: over an unchanging collection, every page holds the records
\* at positions (p-1)*L+1 .. min(p*L, N) of the newest-first order with
\* total = N, pages = ceil(N/L) and hasMore iff p*L < N, so that the pages
\* of one query are slices of the same order and return each record once.
C23_PagesPartition ==
    [][ IsPage(res') => PagesOfOneOrder(res, res') ]_vars

\* C23 amended: the same, for queries whose matching records have pairwise
\* distinct createdAt.
C23_PagesPartitionDistinct ==
    [][ (IsPage(res') /\ DistinctCreatedAt(res')) => PagesOfOneOrder(res, res') ]_vars

\* The second and last page of the three orders of shop 1, two to a page: it
\* holds the oldest order alone.
C23_Witness ==
    /\ res.op = "orders" /\ res.success /\ res.shopId = << 1 >>
    /\ res.summary.filter = Undefined
    /\ res.summary.page = 2 /\ res.summary.limit = 2
    /\ res.summary.total = 3 /\ res.summary.pages = 2 /\ ~res.summary.hasMore
    /\ Len(res.data) = 1 /\ res.data[1].id = 2

====
